---- MODULE Spec2Model ----
(***************************************************************************)
(* A model of the RAID-5 / RAID-6 array simulator (src/src/sim.rs) and of  *)
(* the GF(2^8) arithmetic it rests on (src/src/generator).                 *)
(***************************************************************************)
EXTENDS Integers, Naturals, Sequences, FiniteSets, TLC

(***************************************************************************)
(* Bounds of the model.                                                    *)
(***************************************************************************)
\* the largest number of drives of an array
MaxDrives == 4
\* the largest size of a drive, in bytes
MaxDriveSize == 2
\* writes may store the bytes (85 * i) % 256 for i in 1..MaxByteIdx
MaxByteIdx == 2
\* the largest number of bytes of all drives of an array together
MaxTotalBytes == 6
\* the number of write calls of one run
MaxWrites == 2
\* the number of fail_* calls of one run beyond the p the array tolerates
MaxExtraFails == 1

(***************************************************************************)
(* Bytes and bitwise exclusive or on u8.                                   *)
(***************************************************************************)
Byte == 0..255

\* bit i of a ^ b
XorBit(a, b, i) == ((a \div (2 ^ i)) + (b \div (2 ^ i))) % 2

\* the ^ operator of u8
Xor(a, b) ==
    XorBit(a, b, 0) + 2 * XorBit(a, b, 1) + 4 * XorBit(a, b, 2) + 8 * XorBit(a, b, 3)
    + 16 * XorBit(a, b, 4) + 32 * XorBit(a, b, 5) + 64 * XorBit(a, b, 6)
    + 128 * XorBit(a, b, 7)

(***************************************************************************)
(* generator/table.rs: the antilog and log tables of the generator {02}.   *)
(* The tables are written out; MTable_new states the loops that fill them  *)
(* and is a conjunct of Init, so the written tables are the ones the loops *)
(* build.                                                                  *)
(***************************************************************************)
nth_bit(num, idx) == (num \div (2 ^ idx)) % 2

raid6_generator(num) ==
    LET m == IF nth_bit(num, 7) = 1 THEN 29 ELSE 0
    IN  Xor((num * 2) % 256, m)

\* the bit-by-bit step without the high bit fed back into bit 0
legacy_generator_1c(num) ==
    LET m == IF nth_bit(num, 7) = 1 THEN 28 ELSE 0
    IN  Xor((num * 2) % 256, m)

\* table.rs, the first table module: the same step written bit by bit; the
\* operands of | are distinct bits, so | is +
legacy_raid6_generator(num) ==
    LET seventh == nth_bit(num, 7)
        bitxor(a, b) == (a + b) % 2
    IN  nth_bit(num, 6) * 128
        + nth_bit(num, 5) * 64
        + nth_bit(num, 4) * 32
        + bitxor(nth_bit(num, 3), seventh) * 16
        + bitxor(nth_bit(num, 2), seventh) * 8
        + bitxor(nth_bit(num, 1), seventh) * 4
        + nth_bit(num, 0) * 2
        + nth_bit(num, 7)

\* MTable.n_to_gn, entries 0..254
n_to_gn_table ==
    <<
         1,   2,   4,   8,  16,  32,  64, 128,  29,  58, 116, 232, 205, 135,  19,  38,
        76, 152,  45,  90, 180, 117, 234, 201, 143,   3,   6,  12,  24,  48,  96, 192,
       157,  39,  78, 156,  37,  74, 148,  53, 106, 212, 181, 119, 238, 193, 159,  35,
        70, 140,   5,  10,  20,  40,  80, 160,  93, 186, 105, 210, 185, 111, 222, 161,
        95, 190,  97, 194, 153,  47,  94, 188, 101, 202, 137,  15,  30,  60, 120, 240,
       253, 231, 211, 187, 107, 214, 177, 127, 254, 225, 223, 163,  91, 182, 113, 226,
       217, 175,  67, 134,  17,  34,  68, 136,  13,  26,  52, 104, 208, 189, 103, 206,
       129,  31,  62, 124, 248, 237, 199, 147,  59, 118, 236, 197, 151,  51, 102, 204,
       133,  23,  46,  92, 184, 109, 218, 169,  79, 158,  33,  66, 132,  21,  42,  84,
       168,  77, 154,  41,  82, 164,  85, 170,  73, 146,  57, 114, 228, 213, 183, 115,
       230, 209, 191,  99, 198, 145,  63, 126, 252, 229, 215, 179, 123, 246, 241, 255,
       227, 219, 171,  75, 150,  49,  98, 196, 149,  55, 110, 220, 165,  87, 174,  65,
       130,  25,  50, 100, 200, 141,   7,  14,  28,  56, 112, 224, 221, 167,  83, 166,
        81, 162,  89, 178, 121, 242, 249, 239, 195, 155,  43,  86, 172,  69, 138,   9,
        18,  36,  72, 144,  61, 122, 244, 245, 247, 243, 251, 235, 203, 139,  11,  22,
        44,  88, 176, 125, 250, 233, 207, 131,  27,  54, 108, 216, 173,  71, 142
    >>

\* MTable.gn_to_n, entries 0..255
gn_to_n_table ==
    <<
         0,   0,   1,  25,   2,  50,  26, 198,   3, 223,  51, 238,  27, 104, 199,  75,
         4, 100, 224,  14,  52, 141, 239, 129,  28, 193, 105, 248, 200,   8,  76, 113,
         5, 138, 101,  47, 225,  36,  15,  33,  53, 147, 142, 218, 240,  18, 130,  69,
        29, 181, 194, 125, 106,  39, 249, 185, 201, 154,   9, 120,  77, 228, 114, 166,
         6, 191, 139,  98, 102, 221,  48, 253, 226, 152,  37, 179,  16, 145,  34, 136,
        54, 208, 148, 206, 143, 150, 219, 189, 241, 210,  19,  92, 131,  56,  70,  64,
        30,  66, 182, 163, 195,  72, 126, 110, 107,  58,  40,  84, 250, 133, 186,  61,
       202,  94, 155, 159,  10,  21, 121,  43,  78, 212, 229, 172, 115, 243, 167,  87,
         7, 112, 192, 247, 140, 128,  99,  13, 103,  74, 222, 237,  49, 197, 254,  24,
       227, 165, 153, 119,  38, 184, 180, 124,  17,  68, 146, 217,  35,  32, 137,  46,
        55,  63, 209,  91, 149, 188, 207, 205, 144, 135, 151, 178, 220, 252, 190,  97,
       242,  86, 211, 171,  20,  42,  93, 158, 132,  60,  57,  83,  71, 109,  65, 162,
        31,  45,  67, 216, 183, 123, 164, 118, 196,  23,  73, 236, 127,  12, 111, 246,
       108, 161,  59,  82,  41, 157,  85, 170, 251,  96, 134, 177, 187, 204,  62,  90,
       203,  89,  95, 176, 156, 169, 160,  81,  11, 245,  22, 235, 122, 117,  44, 215,
        79, 174, 213, 233, 230, 231, 173, 232, 116, 214, 244, 234, 168,  80,  88, 175
    >>

\* TABLE.n_to_gn[n]
n_to_gn(n) == n_to_gn_table[n + 1]

\* TABLE.gn_to_n[v]
gn_to_n(v) == gn_to_n_table[v + 1]

\* MTable::new: n_to_gn[0] = 1 and n_to_gn[n] = g * n_to_gn[n-1]; then
\* gn_to_n[n_to_gn[i]] = i for i = 0..254 in order, any other entry staying 0
MTable_new ==
    /\ Len(n_to_gn_table) = 255
    /\ Len(gn_to_n_table) = 256
    /\ n_to_gn(0) = 1
    /\ \A n \in 1..254 : n_to_gn(n) = raid6_generator(n_to_gn(n - 1))
    /\ \A v \in Byte :
          LET hits == {i \in 0..254 : n_to_gn(i) = v}
          IN  gn_to_n(v) = IF hits = {} THEN 0
                           ELSE CHOOSE i \in hits : \A j \in hits : j <= i

(***************************************************************************)
(* generator/mod.rs: a field element is its discrete logarithm n, a u8;    *)
(* n = ZERO stands for the zero element.  A panic is the value GenPanic.   *)
(***************************************************************************)
ZERO == 255

GenPanic == 0 - 1

\* (n % 255) as u8: the remainder takes the sign of n, the cast wraps it
rem_255(n) == IF n < 0 THEN (256 - ((0 - n) % 255)) % 256 ELSE n % 255

\* n.rem_euclid(255) as u8
rem_euclid_255(n) == n % 255

\* From<u8> without the case of the byte 0
Gen_from_table_only(value) == gn_to_n(value)

\* impl From<u8> for Gen
Gen_from(value) == IF value = 0 THEN ZERO ELSE gn_to_n(value)

\* impl FromPower<u8> for Gen: the exponent is stored unreduced
Gen_from_power_u8(n) == n

\* from_power with the exponent cast to u8 and not reduced
Gen_from_power_wrapping(n) == n % 256

\* impl FromPower<i16>, FromPower<i32>, FromPower<usize> for Gen
Gen_from_power(n) == rem_euclid_255(n)

\* Gen::value
Gen_value(g) == IF g = ZERO THEN 0 ELSE n_to_gn(g)

\* Mul with the exponents added modulo 256
Gen_mul_mod_256(lhs, rhs) ==
    IF rhs = ZERO \/ lhs = ZERO THEN ZERO ELSE (lhs + rhs) % 256

\* impl Mul for Gen
Gen_mul(lhs, rhs) ==
    IF rhs = ZERO \/ lhs = ZERO THEN ZERO ELSE (lhs + rhs) % 255

\* impl Mul<u8> for Gen
Gen_mul_u8(lhs, rhs) == Gen_mul(lhs, Gen_from(rhs))

\* inverse without the case of g^0
Gen_inverse_plain(g) ==
    IF g = ZERO THEN GenPanic
    ELSE 255 - g

\* Gen::inverse
Gen_inverse(g) ==
    IF g = ZERO THEN GenPanic
    ELSE IF g = 0 THEN g
    ELSE 255 - g

\* impl Div<Gen> for Gen
Gen_div(lhs, rhs) ==
    IF Gen_inverse(rhs) = GenPanic THEN GenPanic
    ELSE Gen_mul(lhs, Gen_inverse(rhs))

\* u8 / Gen without the division
u8_undivided(lhs, rhs) == Gen_from(lhs)

\* impl Div<Gen> for u8
u8_div_Gen(lhs, rhs) == Gen_div(Gen_from(lhs), rhs)

\* impl Add<u8> for Gen: n_to_gn has 255 entries, so index 255 panics
Gen_add_u8(g, rhs) ==
    IF g >= Len(n_to_gn_table) THEN GenPanic
    ELSE gn_to_n(Xor(n_to_gn(g), rhs))

\* impl BitXor<Gen> for u8
u8_xor_Gen(lhs, g) == Xor(lhs, Gen_value(g))

(***************************************************************************)
(* The state of the program.                                               *)
(***************************************************************************)
(***************************************************************************)
(* drive.rs, raid.rs: the first simulation.  A drive is its bytes and a    *)
(* stored checksum; the array is a vector of drives indexed from 0.        *)
(***************************************************************************)
MaxLegacyDrives == 2

MaxLegacySize == 3

MaxCorrupts == 2

\* the bytes Drive::random fills a drive with
LegacyBytes == {0, 1, 127, 255}

\* the loop of compute_cksum from the byte i on, cksum being the XOR so far
RECURSIVE LegacyDrive_cksum_loop(_, _, _)
LegacyDrive_cksum_loop(data, i, cksum) ==
    IF i > Len(data) THEN cksum
    ELSE LegacyDrive_cksum_loop(data, i + 1, Xor(cksum, data[i]))

\* Drive::compute_cksum
LegacyDrive_compute_cksum(d) == LegacyDrive_cksum_loop(d.data, 1, 0)

\* Drive::cksum: the stored checksum
LegacyDrive_cksum(d) == d.cksum

\* Drive::from_data
LegacyDrive_from_data(data) ==
    [data |-> data, cksum |-> LegacyDrive_compute_cksum([data |-> data, cksum |-> 0])]

\* Drive::corrupt: every byte plus 1 modulo 256, the stored checksum kept
LegacyDrive_corrupt(d) ==
    [d EXCEPT !.data = [i \in DOMAIN d.data |-> (d.data[i] + 1) % 256]]

\* State::find_corrupted from the drive i on: the indices, in order, of the
\* drives whose stored checksum is not the computed one
RECURSIVE State_find_corrupted_from(_, _)
State_find_corrupted_from(ds, i) ==
    IF i \notin DOMAIN ds THEN <<>>
    ELSE (IF LegacyDrive_cksum(ds[i]) # LegacyDrive_compute_cksum(ds[i])
          THEN <<i>> ELSE <<>>) \o State_find_corrupted_from(ds, i + 1)

State_find_corrupted(ds) == State_find_corrupted_from(ds, 0)

\* the State and its history; no State is constructed in the runs of RaidSim
LegacyState(ds, times, found, op) ==
    [drives |-> ds, times |-> times, found |-> found, op |-> op]

NoLegacy == LegacyState(<<>>, <<>>, <<>>, "none")

VARIABLES
    mode,         \* RaidSim.mode: "Raid5" or "Raid6"
    drive_size,   \* RaidSim.drive_size
    drives,       \* RaidSim.drives: 0..N-1 -> [data, failed, formatted]
    ret,          \* the last call that took &mut self, or that panicked, and how it ended
    written,      \* history: address -> the byte of the last successful write
    replica,      \* history: the drives of a never-failed copy of the array
    phase,        \* history: the shape of the calls made so far
    lastWrite,    \* history: the address of the last successful write and the
                  \* state() it was issued in
    nWrites,      \* the number of write calls made
    nFails,       \* the number of fail_* calls made
    gen,          \* the call of the field arithmetic made last: its name, its
                  \* two u8 arguments and what it returned
    raid          \* raid.rs State: its drives [data, cksum], how often each was
                  \* corrupted, the last find_corrupted() and the last call

vars ==
    <<mode, drive_size, drives, ret, written, replica, phase, lastWrite, nWrites, nFails, gen, raid>>

(***************************************************************************)
(* The drive layer: a byte buffer with a failed and a formatted flag.      *)
(***************************************************************************)
RetVal(t, v) == [tag |-> t, val |-> v]
RetDrive(t, d) == [tag |-> t, drive |-> d]
RetDs(t, ds) == [tag |-> t, ds |-> ds]

Drive_empty(size) ==
    [data |-> [o \in 0..(size - 1) |-> 0], failed |-> FALSE, formatted |-> FALSE]

Drive_format(d) == [d EXCEPT !.formatted = TRUE]

Drive_fail(d) == [d EXCEPT !.failed = TRUE]

Drive_has_failed(d) == d.failed

Drive_is_formatted(d) == d.formatted

Drive_read(d, o) ==
    IF d.failed THEN RetVal("DriveFailed", 0) ELSE RetVal("Ok", d.data[o])

Drive_write(d, o, b) ==
    IF d.failed THEN RetDrive("DriveFailed", d)
    ELSE RetDrive("Ok", [d EXCEPT !.data[o] = b])

(***************************************************************************)
(* sim.rs: accessors.                                                      *)
(***************************************************************************)
P_INDEX == 0
Q_INDEX == 1

NumDrives(ds) == Cardinality(DOMAIN ds)

\* the first index of data_drives(): drives[start..]
data_start == IF mode = "Raid5" THEN 1 ELSE 2

\* data_drives().count()
data_count(ds) == NumDrives(ds) - data_start

\* data_drives().nth(k)
data_drive(ds, k) == ds[data_start + k]

p_parity(ds) == ds[P_INDEX]

q_parity(ds) == ds[Q_INDEX]

failed(ds) == {i \in DOMAIN ds : Drive_has_failed(ds[i])}

unformatted(ds) == {i \in DOMAIN ds : ~Drive_is_formatted(ds[i])}

not_failed(ds) == {i \in DOMAIN ds : ~Drive_has_failed(ds[i])}

\* size counting the parity drives as capacity
size_all_drives(ds) == NumDrives(ds) * drive_size

size(ds) == data_count(ds) * drive_size

\* state with the RAID-5 threshold applied in both modes
state_one_parity(ds) ==
    LET unfmt == Cardinality(unformatted(ds))
        count == Cardinality(failed(ds)) + unfmt
    IN  IF unfmt = NumDrives(ds) THEN "Uninit"
        ELSE IF count > 1 THEN "Failed"
        ELSE IF count > 0 THEN "Degraded"
        ELSE "Ok"

state(ds) ==
    LET unfmt == Cardinality(unformatted(ds))
        count == Cardinality(failed(ds)) + unfmt
    IN  IF unfmt = NumDrives(ds) THEN "Uninit"
        ELSE IF count > 2 \/ (count > 1 /\ mode = "Raid5") THEN "Failed"
        ELSE IF count > 0 THEN "Degraded"
        ELSE "Ok"

\* init that formats the data drives only
init_data_only(ds) ==
    [i \in DOMAIN ds |-> IF i >= data_start THEN Drive_format(ds[i]) ELSE ds[i]]

init(ds) == [i \in DOMAIN ds |-> Drive_format(ds[i])]

(***************************************************************************)
(* sim.rs: the parity kernels.                                             *)
(***************************************************************************)
\* the data-drive indices the fold visits, in order
fold_indices(ds, ignore) == {k \in 0..(data_count(ds) - 1) : k \notin ignore}

RECURSIVE xor_fold(_, _, _)
xor_fold(ds, offset, ks) ==
    IF ks = {} THEN 0
    ELSE LET k == CHOOSE x \in ks : \A z \in ks : x <= z
         IN  Xor(data_drive(ds, k).data[offset], xor_fold(ds, offset, ks \ {k}))

RECURSIVE q_fold(_, _, _)
q_fold(ds, offset, ks) ==
    IF ks = {} THEN 0
    ELSE LET k == CHOOSE x \in ks : \A z \in ks : x <= z
         IN  Xor(Gen_value(Gen_mul_u8(Gen_from_power(k), data_drive(ds, k).data[offset])),
                 q_fold(ds, offset, ks \ {k}))

p_parity_offset_ignore(ds, offset, ignore) ==
    LET ks == fold_indices(ds, ignore)
    IN  IF \E k \in ks : Drive_read(data_drive(ds, k), offset).tag # "Ok"
        THEN RetVal("DriveFailed", 0)
        ELSE IF ks = {} THEN RetVal("Panic", 0)
        ELSE RetVal("Ok", xor_fold(ds, offset, ks))

q_parity_offset_ignore(ds, offset, ignore) ==
    LET ks == fold_indices(ds, ignore)
    IN  IF \E k \in ks : Drive_read(data_drive(ds, k), offset).tag # "Ok"
        THEN RetVal("DriveFailed", 0)
        ELSE RetVal("Ok", q_fold(ds, offset, ks))

(***************************************************************************)
(* sim.rs: read.                                                           *)
(***************************************************************************)
\* A = g^(y-x) / (g^(y-x) + 1)
coeff_a(x, y) ==
    Gen_div(Gen_from_power(y - x), Gen_add_u8(Gen_from_power(y - x), 1))

\* B = g^(-x) / (g^(y-x) + 1)
coeff_b(x, y) ==
    Gen_div(Gen_from_power(0 - x), Gen_add_u8(Gen_from_power(y - x), 1))

\* (a * (p ^ p_xy)) ^ (b * (q ^ q_xy))
double_data_byte(a, b, p, p_xy, q, q_xy) ==
    Xor(Gen_value(Gen_mul_u8(a, Xor(p, p_xy))), Gen_value(Gen_mul_u8(b, Xor(q, q_xy))))

\* read, the failed drive recovered from P
read_via_p(ds, drive_offset, drive_index) ==
    LET f == p_parity_offset_ignore(ds, drive_offset, {drive_index})
        p == Drive_read(p_parity(ds), drive_offset)
    IN  IF f.tag # "Ok" THEN f
        ELSE IF p.tag # "Ok" THEN p
        ELSE RetVal("Ok", Xor(f.val, p.val))

\* read, the failed drive recovered from Q
read_via_q(ds, drive_offset, drive_index) ==
    LET f == q_parity_offset_ignore(ds, drive_offset, {drive_index})
        q == Drive_read(q_parity(ds), drive_offset)
    IN  IF f.tag # "Ok" THEN f
        ELSE IF q.tag # "Ok" THEN q
        ELSE LET data == u8_div_Gen(Xor(f.val, q.val), Gen_from_power(drive_index))
             IN  IF data = GenPanic THEN RetVal("Panic", 0)
                 ELSE RetVal("Ok", Gen_value(data))

\* read, the failed drive recovered from P and Q, a second data drive failed
read_via_pq(ds, drive_offset, drive_index) ==
    LET x == drive_index
        others == {k \in 0..(data_count(ds) - 1) :
                     k # drive_index /\ Drive_has_failed(data_drive(ds, k))}
    IN  IF others = {} THEN RetVal("Panic", 0)
        ELSE
        LET y == CHOOSE k \in others : \A z \in others : k <= z
            p_xy == p_parity_offset_ignore(ds, drive_offset, {x, y})
            q_xy == q_parity_offset_ignore(ds, drive_offset, {x, y})
            p == Drive_read(p_parity(ds), drive_offset)
            q == Drive_read(q_parity(ds), drive_offset)
            a == coeff_a(x, y)
            b == coeff_b(x, y)
        IN  IF p_xy.tag # "Ok" THEN p_xy
            ELSE IF q_xy.tag # "Ok" THEN q_xy
            ELSE IF p.tag # "Ok" THEN p
            ELSE IF q.tag # "Ok" THEN q
            ELSE IF a = GenPanic \/ b = GenPanic THEN RetVal("Panic", 0)
            ELSE RetVal("Ok", double_data_byte(a, b, p.val, p_xy.val, q.val, q_xy.val))

\* read that rebuilds the byte of a working data drive from P when it can
read_prefers_parity(ds, offset) ==
    IF offset >= size(ds) THEN RetVal("OffsetTooLarge", offset)
    ELSE IF state(ds) = "Failed" THEN RetVal("Failed", 0)
    ELSE
    LET drive_offset == offset % drive_size
        drive_index == offset \div drive_size
        drive == data_drive(ds, drive_index)
        via_p == read_via_p(ds, drive_offset, drive_index)
    IN  IF ~Drive_has_failed(drive)
        THEN IF via_p.tag = "Ok" THEN via_p ELSE Drive_read(drive, drive_offset)
        ELSE IF Cardinality(failed(ds)) = 1 \/ Drive_has_failed(q_parity(ds))
             THEN read_via_p(ds, drive_offset, drive_index)
        ELSE IF Drive_has_failed(p_parity(ds))
             THEN read_via_q(ds, drive_offset, drive_index)
        ELSE read_via_pq(ds, drive_offset, drive_index)

read(ds, offset) ==
    IF offset >= size(ds) THEN RetVal("OffsetTooLarge", offset)
    ELSE IF state(ds) = "Failed" THEN RetVal("Failed", 0)
    ELSE
    LET drive_offset == offset % drive_size
        drive_index == offset \div drive_size
        drive == data_drive(ds, drive_index)
    IN  IF ~Drive_has_failed(drive) THEN Drive_read(drive, drive_offset)
        ELSE IF Cardinality(failed(ds)) = 1 \/ Drive_has_failed(q_parity(ds))
             THEN read_via_p(ds, drive_offset, drive_index)
        ELSE IF Drive_has_failed(p_parity(ds))
             THEN read_via_q(ds, drive_offset, drive_index)
        ELSE read_via_pq(ds, drive_offset, drive_index)

(***************************************************************************)
(* sim.rs: write.                                                          *)
(***************************************************************************)
\* write_data with the data-drive index taken as an index of drives
write_data_absolute(ds, drive_index, drive_offset, data) ==
    LET i == drive_index
    IN  IF Drive_has_failed(ds[i]) THEN ds
        ELSE [ds EXCEPT ![i] = Drive_write(ds[i], drive_offset, data).drive]

\* write_data storing the byte at offset 0 of the drive
write_data_first_offset(ds, drive_index, drive_offset, data) ==
    LET i == data_start + drive_index
    IN  IF Drive_has_failed(ds[i]) THEN ds
        ELSE [ds EXCEPT ![i] = Drive_write(ds[i], 0, data).drive]

\* the data drive gets the byte unless it has failed
write_data(ds, drive_index, drive_offset, data) ==
    LET i == data_start + drive_index
    IN  IF Drive_has_failed(ds[i]) THEN ds
        ELSE [ds EXCEPT ![i] = Drive_write(ds[i], drive_offset, data).drive]

\* write_p without the old byte: P[o] <- P[o] ^ data
write_p_drops_old(ds, drive_offset, old_data, data) ==
    IF Drive_has_failed(p_parity(ds)) THEN ds
    ELSE [ds EXCEPT ![P_INDEX] =
            Drive_write(ds[P_INDEX], drive_offset,
                        Xor(ds[P_INDEX].data[drive_offset], data)).drive]

\* P[o] <- P[o] ^ old ^ data unless P has failed
write_p(ds, drive_offset, old_data, data) ==
    IF Drive_has_failed(p_parity(ds)) THEN ds
    ELSE [ds EXCEPT ![P_INDEX] =
            Drive_write(ds[P_INDEX], drive_offset,
                        Xor(Xor(ds[P_INDEX].data[drive_offset], old_data), data)).drive]

\* write_q with the power taken from the index of the drive in drives
write_q_absolute(ds, drive_index, drive_offset, old_data, data) ==
    IF mode = "Raid6" /\ ~Drive_has_failed(q_parity(ds))
    THEN [ds EXCEPT ![Q_INDEX] =
            Drive_write(ds[Q_INDEX], drive_offset,
                        u8_xor_Gen(ds[Q_INDEX].data[drive_offset],
                                   Gen_mul_u8(Gen_from_power(drive_index + data_start),
                                              Xor(old_data, data)))).drive]
    ELSE ds

\* Q[o] <- Q[o] ^ (g^k * (old ^ data)) in RAID-6 unless Q has failed
write_q(ds, drive_index, drive_offset, old_data, data) ==
    IF mode = "Raid6" /\ ~Drive_has_failed(q_parity(ds))
    THEN [ds EXCEPT ![Q_INDEX] =
            Drive_write(ds[Q_INDEX], drive_offset,
                        u8_xor_Gen(ds[Q_INDEX].data[drive_offset],
                                   Gen_mul_u8(Gen_from_power(drive_index),
                                              Xor(old_data, data)))).drive]
    ELSE ds

\* write without the test for a Failed array
write_unchecked_state(ds, offset, data) ==
    IF offset >= size(ds) THEN RetDs("OffsetTooLarge", ds)
    ELSE
    LET old == read(ds, offset)
        drive_offset == offset % drive_size
        drive_index == offset \div drive_size
    IN  IF old.tag # "Ok" THEN RetDs("Panic", ds)
        ELSE RetDs("Ok",
                   write_q(write_p(write_data(ds, drive_index, drive_offset, data),
                                   drive_offset, old.val, data),
                           drive_index, drive_offset, old.val, data))

write(ds, offset, data) ==
    IF offset >= size(ds) THEN RetDs("OffsetTooLarge", ds)
    ELSE IF state(ds) = "Failed" THEN RetDs("Failed", ds)
    ELSE
    LET old == read(ds, offset)
        drive_offset == offset % drive_size
        drive_index == offset \div drive_size
    IN  IF old.tag # "Ok" THEN RetDs("Panic", ds)
        ELSE RetDs("Ok",
                   write_q(write_p(write_data(ds, drive_index, drive_offset, data),
                                   drive_offset, old.val, data),
                           drive_index, drive_offset, old.val, data))

(***************************************************************************)
(* sim.rs: repair.  Each helper walks the offsets 0..drive_size-1 and      *)
(* stops at the first error, keeping the bytes written so far.             *)
(***************************************************************************)
\* put_byte storing every repaired byte on the P drive
put_byte_on_p(ds, i, offset, byte) ==
    LET w == Drive_write(ds[P_INDEX], offset, byte)
    IN  IF w.tag # "Ok" THEN RetDs(w.tag, ds)
        ELSE RetDs("Ok", [ds EXCEPT ![P_INDEX] = w.drive])

\* store one repaired byte on drive i, or stop with the error
put_byte(ds, i, offset, byte) ==
    LET w == Drive_write(ds[i], offset, byte)
    IN  IF w.tag # "Ok" THEN RetDs(w.tag, ds)
        ELSE RetDs("Ok", [ds EXCEPT ![i] = w.drive])

\* format_drive that marks the drive formatted even after an error
format_drive_always(r, i) ==
    RetDs(r.tag, [r.ds EXCEPT ![i] = Drive_format(r.ds[i])])

\* format_drive that never marks the drive formatted
format_drive_never(r, i) == r

format_drive(r, i) ==
    IF r.tag # "Ok" THEN r
    ELSE RetDs("Ok", [r.ds EXCEPT ![i] = Drive_format(r.ds[i])])

RECURSIVE repair_p_parity_loop(_, _)
repair_p_parity_loop(ds, i) ==
    IF i >= drive_size THEN RetDs("Ok", ds)
    ELSE LET byte == p_parity_offset_ignore(ds, i, {})
         IN  IF byte.tag # "Ok" THEN RetDs(byte.tag, ds)
             ELSE LET w == put_byte(ds, P_INDEX, i, byte.val)
                  IN  IF w.tag # "Ok" THEN w
                      ELSE repair_p_parity_loop(w.ds, i + 1)

repair_p_parity(ds) == format_drive(repair_p_parity_loop(ds, 0), P_INDEX)

RECURSIVE repair_q_parity_loop(_, _)
repair_q_parity_loop(ds, i) ==
    IF i >= drive_size THEN RetDs("Ok", ds)
    ELSE LET byte == q_parity_offset_ignore(ds, i, {})
         IN  IF byte.tag # "Ok" THEN RetDs(byte.tag, ds)
             ELSE LET w == put_byte(ds, Q_INDEX, i, byte.val)
                  IN  IF w.tag # "Ok" THEN w
                      ELSE repair_q_parity_loop(w.ds, i + 1)

repair_q_parity(ds) == format_drive(repair_q_parity_loop(ds, 0), Q_INDEX)

RECURSIVE repair_single_data_p_parity_loop(_, _, _)
repair_single_data_p_parity_loop(ds, idx, i) ==
    IF i >= drive_size THEN RetDs("Ok", ds)
    ELSE LET byte == read_via_p(ds, i, idx)
         IN  IF byte.tag # "Ok" THEN RetDs(byte.tag, ds)
             ELSE LET w == put_byte(ds, data_start + idx, i, byte.val)
                  IN  IF w.tag # "Ok" THEN w
                      ELSE repair_single_data_p_parity_loop(w.ds, idx, i + 1)

repair_single_data_p_parity(ds, idx) ==
    format_drive(repair_single_data_p_parity_loop(ds, idx, 0), data_start + idx)

RECURSIVE repair_single_data_q_parity_loop(_, _, _)
repair_single_data_q_parity_loop(ds, idx, i) ==
    IF i >= drive_size THEN RetDs("Ok", ds)
    ELSE LET byte == read_via_q(ds, i, idx)
         IN  IF byte.tag # "Ok" THEN RetDs(byte.tag, ds)
             ELSE LET w == put_byte(ds, data_start + idx, i, byte.val)
                  IN  IF w.tag # "Ok" THEN w
                      ELSE repair_single_data_q_parity_loop(w.ds, idx, i + 1)

repair_single_data_q_parity(ds, idx) ==
    format_drive(repair_single_data_q_parity_loop(ds, idx, 0), data_start + idx)

RECURSIVE repair_double_data_loop(_, _, _, _)
repair_double_data_loop(ds, x, y, i) ==
    IF i >= drive_size THEN RetDs("Ok", ds)
    ELSE
    LET p_xy == p_parity_offset_ignore(ds, i, {x, y})
        q_xy == q_parity_offset_ignore(ds, i, {x, y})
        p == Drive_read(p_parity(ds), i)
        q == Drive_read(q_parity(ds), i)
        a == coeff_a(x, y)
        b == coeff_b(x, y)
    IN  IF p_xy.tag # "Ok" THEN RetDs(p_xy.tag, ds)
        ELSE IF q_xy.tag # "Ok" THEN RetDs(q_xy.tag, ds)
        ELSE IF p.tag # "Ok" THEN RetDs(p.tag, ds)
        ELSE IF q.tag # "Ok" THEN RetDs(q.tag, ds)
        ELSE IF a = GenPanic \/ b = GenPanic THEN RetDs("Panic", ds)
        ELSE
        LET dx == double_data_byte(a, b, p.val, p_xy.val, q.val, q_xy.val)
            dy == Xor(Xor(p.val, p_xy.val), dx)
            wx == put_byte(ds, data_start + x, i, dx)
        IN  IF wx.tag # "Ok" THEN wx
            ELSE LET wy == put_byte(wx.ds, data_start + y, i, dy)
                 IN  IF wy.tag # "Ok" THEN wy
                     ELSE repair_double_data_loop(wy.ds, x, y, i + 1)

repair_double_data(ds, x, y) ==
    format_drive(format_drive(repair_double_data_loop(ds, x, y, 0), data_start + x),
                 data_start + y)

\* the data-drive indices of the unformatted data drives
unformatted_data(ds) ==
    {k \in 0..(data_count(ds) - 1) : ~Drive_is_formatted(data_drive(ds, k))}

\* iter.next() over a set of indices taken in increasing order
first_of(ks) == CHOOSE k \in ks : \A z \in ks : k <= z

\* the second helper left out
and_then_nothing(r) == r

\* a second helper runs only when the first returned Ok
and_then_p(r) == IF r.tag # "Ok" THEN r ELSE repair_p_parity(r.ds)

and_then_q(r) == IF r.tag # "Ok" THEN r ELSE repair_q_parity(r.ds)

\* the Degraded arm of repair
repair_degraded(ds) ==
    LET p_unfmtd == ~Drive_is_formatted(p_parity(ds))
        q_unfmtd == ~Drive_is_formatted(q_parity(ds))
        num_unfmtd == Cardinality(unformatted(ds))
        ud == unformatted_data(ds)
    IN  IF num_unfmtd = 1 THEN
            IF p_unfmtd THEN repair_p_parity(ds)
            ELSE IF q_unfmtd THEN repair_q_parity(ds)
            ELSE IF ud = {} THEN RetDs("Panic", ds)
            ELSE repair_single_data_p_parity(ds, first_of(ud))
        ELSE
            IF p_unfmtd /\ q_unfmtd THEN and_then_q(repair_p_parity(ds))
            ELSE IF q_unfmtd THEN
                IF ud = {} THEN RetDs("Panic", ds)
                ELSE and_then_q(repair_single_data_p_parity(ds, first_of(ud)))
            ELSE IF p_unfmtd THEN
                IF ud = {} THEN RetDs("Panic", ds)
                ELSE and_then_p(repair_single_data_q_parity(ds, first_of(ud)))
            ELSE IF Cardinality(ud) < 2 THEN RetDs("Panic", ds)
            ELSE repair_double_data(ds, first_of(ud), first_of(ud \ {first_of(ud)}))

\* repair that also attempts the repair of a Failed array
repair_failed_too(ds) ==
    CASE state(ds) = "Ok" -> RetDs("Ok", ds)
      [] state(ds) = "Uninit" -> RetDs("NotInitialized", ds)
      [] state(ds) \in {"Degraded", "Failed"} -> repair_degraded(ds)

repair(ds) ==
    CASE state(ds) = "Ok" -> RetDs("Ok", ds)
      [] state(ds) = "Failed" -> RetDs("Failed", ds)
      [] state(ds) = "Uninit" -> RetDs("NotInitialized", ds)
      [] state(ds) = "Degraded" -> repair_degraded(ds)

(***************************************************************************)
(* sim.rs: fault injection.                                                *)
(***************************************************************************)
fail_drive(ds, i) == [ds EXCEPT ![i] = Drive_fail(ds[i])]

\* the drives fail_random_data chooses from
not_failed_data(ds) ==
    {i \in DOMAIN ds : i >= data_start /\ ~Drive_has_failed(ds[i])}

fail_p_parity(ds) == fail_drive(ds, P_INDEX)

fail_q_parity(ds) == fail_drive(ds, Q_INDEX)

\* replace_failed_drives handing out drives that are already formatted
replace_with_formatted(ds) ==
    [i \in DOMAIN ds |->
        IF Drive_has_failed(ds[i]) THEN Drive_format(Drive_empty(drive_size)) ELSE ds[i]]

replace_failed_drives(ds) ==
    [i \in DOMAIN ds |->
        IF Drive_has_failed(ds[i]) THEN Drive_empty(drive_size) ELSE ds[i]]

(***************************************************************************)
(* History variables: what was written, and the shape of the run.          *)
(*   new        constructed, nothing called                                *)
(*   clean      init, then only reads and writes                           *)
(*   failed     clean, then fail_* calls only                              *)
(*   failedW    failed, then writes and fail_* calls, nothing replaced yet *)
(*   replaced   failed or failedW, then replace_failed_drives              *)
(*   replacedW  replaced, then writes                                      *)
(*   repaired   replaced, then a repair that returned Ok                   *)
(*   repairedW  replacedW, then a repair that returned Ok                  *)
(*   other      any other run                                              *)
(***************************************************************************)
Modes == {"Raid5", "Raid6"}

\* a call of the field arithmetic: its name, its arguments, its results
GenCall(op, x, y, out) == [op |-> op, x |-> x, y |-> y, out |-> out]

\* p, the number of parity drives
parity_count(m) == IF m = "Raid5" THEN 1 ELSE 2

\* the number of fail_* calls of one run
MaxFails == parity_count(mode) + MaxExtraFails

WriteBytes == {(85 * i) % 256 : i \in 1..MaxByteIdx}

Addresses == 0..(size(drives) - 1)

Alive == ret.tag # "Panic"

Ret(op, tag) == [op |-> op, tag |-> tag]

phase_after_init ==
    IF unformatted(drives) = {} THEN phase
    ELSE IF phase = "new" THEN "clean"
    ELSE "other"

phase_after_write(tag) ==
    IF tag # "Ok" THEN phase
    ELSE CASE phase \in {"clean", "failedW", "replacedW"} -> phase
           [] phase = "failed" -> "failedW"
           [] phase = "replaced" -> "replacedW"
           [] OTHER -> "other"

phase_after_fail ==
    IF phase \in {"clean", "failed"} THEN "failed"
    ELSE IF phase = "failedW" THEN "failedW"
    ELSE "other"

phase_after_replace ==
    IF failed(drives) = {} THEN phase
    ELSE IF phase \in {"failed", "failedW"} THEN "replaced"
    ELSE "other"

phase_after_repair(r) ==
    IF r.ds = drives THEN phase
    ELSE IF r.tag = "Ok" /\ phase = "replaced" THEN "repaired"
    ELSE IF r.tag = "Ok" /\ phase = "replacedW" THEN "repairedW"
    ELSE "other"

(***************************************************************************)
(* The specification: one action per call of the interface.  A panic ends  *)
(* the run.                                                                *)
(***************************************************************************)
Init ==
    /\ MTable_new
    /\ mode \in Modes
    /\ drive_size \in 1..MaxDriveSize
    /\ \E num_drives \in (parity_count(mode) + 1)..MaxDrives :
          /\ num_drives * drive_size <= MaxTotalBytes
          /\ drives = [i \in 0..(num_drives - 1) |-> Drive_empty(drive_size)]
    /\ ret = Ret("new", "Ok")
    /\ written = [a \in Addresses |-> 0]
    /\ replica = drives
    /\ phase = "new"
    /\ lastWrite = [a |-> 0, st |-> "none"]
    /\ nWrites = 0
    /\ nFails = 0
    /\ gen = GenCall("none", 0, 0, <<>>)
    /\ raid = NoLegacy

InitOp ==
    /\ Alive
    /\ drives' = init(drives)
    /\ replica' = init(replica)
    /\ ret' = Ret("init", "Ok")
    /\ phase' = phase_after_init
    /\ UNCHANGED <<gen, raid, mode, drive_size, written, lastWrite, nWrites, nFails>>

\* read takes &self: a read that returns leaves the program as it was
ReadOp ==
    /\ Alive
    /\ ret' \in {IF read(drives, a).tag = "Panic" THEN Ret("read", "Panic") ELSE ret :
                    a \in 0..size(drives)}
    /\ UNCHANGED <<gen, raid, mode, drive_size, drives, written, replica, phase, lastWrite, nWrites, nFails>>

WriteOp ==
    /\ Alive
    /\ nWrites < MaxWrites
    /\ \E a \in 0..size(drives), b \in WriteBytes :
          \E w \in {write(drives, a, b)} :
              /\ drives' = w.ds
              /\ ret' = Ret("write", w.tag)
              /\ written' = IF w.tag = "Ok" THEN [written EXCEPT ![a] = b] ELSE written
              /\ replica' = IF w.tag = "Ok" THEN write(replica, a, b).ds ELSE replica
              /\ phase' = phase_after_write(w.tag)
              /\ lastWrite' = IF w.tag = "Ok"
                              THEN [a |-> a, st |-> state(drives)]
                              ELSE lastWrite
    /\ nWrites' = nWrites + 1
    /\ UNCHANGED <<gen, raid, mode, drive_size, nFails>>

\* a fail_* call that marks drive i failed
Fail(op, i) ==
    /\ drives' = fail_drive(drives, i)
    /\ ret' = Ret(op, "Ok")
    /\ phase' = phase_after_fail
    /\ nFails' = nFails + 1
    /\ UNCHANGED <<gen, raid, mode, drive_size, written, replica, lastWrite, nWrites>>

\* a fail_* call that finds no drive to choose: choose(..).unwrap() panics
FailPanic(op) ==
    /\ ret' = Ret(op, "Panic")
    /\ nFails' = nFails + 1
    /\ UNCHANGED <<gen, raid, mode, drive_size, drives, written, replica, phase, lastWrite, nWrites>>

FailRandom ==
    /\ Alive
    /\ nFails < MaxFails
    /\ IF not_failed(drives) = {} THEN FailPanic("fail_random")
       ELSE \E i \in not_failed(drives) : Fail("fail_random", i)

FailRandomData ==
    /\ Alive
    /\ nFails < MaxFails
    /\ IF not_failed_data(drives) = {} THEN FailPanic("fail_random_data")
       ELSE \E i \in not_failed_data(drives) : Fail("fail_random_data", i)

FailPParity ==
    /\ Alive
    /\ nFails < MaxFails
    /\ Fail("fail_p_parity", P_INDEX)

FailQParity ==
    /\ Alive
    /\ nFails < MaxFails
    /\ Fail("fail_q_parity", Q_INDEX)

ReplaceFailedDrives ==
    /\ Alive
    /\ drives' = replace_failed_drives(drives)
    /\ ret' = Ret("replace_failed_drives", "Ok")
    /\ phase' = phase_after_replace
    /\ UNCHANGED <<gen, raid, mode, drive_size, written, replica, lastWrite, nWrites, nFails>>

Repair ==
    /\ Alive
    /\ \E r \in {repair(drives)} :
           /\ drives' = r.ds
           /\ ret' = Ret("repair", r.tag)
           /\ phase' = phase_after_repair(r)
    /\ UNCHANGED <<gen, raid, mode, drive_size, written, replica, lastWrite, nWrites, nFails>>

Next ==
    \/ InitOp
    \/ ReadOp
    \/ WriteOp
    \/ FailRandom
    \/ FailRandomData
    \/ FailPParity
    \/ FailQParity
    \/ ReplaceFailedDrives
    \/ Repair

Spec == Init /\ [][Next]_vars

\* the runs that inject no fault: init, read and write only
NextClean ==
    \/ InitOp
    \/ ReadOp
    \/ WriteOp

SpecClean == Init /\ [][NextClean]_vars

\* the runs that store nothing: init, fault injection, replacement and repair
NextFaults ==
    \/ InitOp
    \/ FailRandom
    \/ FailRandomData
    \/ FailPParity
    \/ FailQParity
    \/ ReplaceFailedDrives
    \/ Repair

SpecFaults == Init /\ [][NextFaults]_vars


(***************************************************************************)
(* The field arithmetic on its own: the arguments are drawn by the initial *)
(* state, each action is one call.  The array is constructed and unused.   *)
(***************************************************************************)
arrayVars ==
    <<mode, drive_size, drives, ret, written, replica, phase, lastWrite, nWrites, nFails>>

ArrayUnused ==
    /\ mode = "Raid5"
    /\ drive_size = 1
    /\ drives = [i \in 0..1 |-> Drive_empty(drive_size)]
    /\ ret = Ret("new", "Ok")
    /\ written = [a \in Addresses |-> 0]
    /\ replica = drives
    /\ phase = "new"
    /\ lastWrite = [a |-> 0, st |-> "none"]
    /\ nWrites = 0
    /\ nFails = 0

\* one u8 argument
InitGenUnary ==
    /\ MTable_new
    /\ ArrayUnused
    /\ \E x \in Byte : gen = GenCall("none", x, 0, <<>>)
    /\ raid = NoLegacy

\* two u8 arguments
InitGenBinary ==
    /\ MTable_new
    /\ ArrayUnused
    /\ \E x \in Byte, y \in Byte : gen = GenCall("none", x, y, <<>>)
    /\ raid = NoLegacy

\* Gen::from(x) and Gen::from(x).value()
GenFromValue ==
    /\ gen' = GenCall("from", gen.x, gen.y, <<Gen_from(gen.x), Gen_value(Gen_from(gen.x))>>)
    /\ UNCHANGED <<arrayVars, raid>>

\* Gen::from_power(i), Gen::from_power(-i), their product, and
\* Gen::from_power(i).value(), for the integer i = x
GenFromPower ==
    /\ gen' = GenCall("from_power", gen.x, gen.y,
                      <<Gen_from_power(gen.x),
                        Gen_from_power(0 - gen.x),
                        Gen_mul(Gen_from_power(gen.x), Gen_from_power(0 - gen.x)),
                        Gen_value(Gen_from_power(gen.x))>>)
    /\ UNCHANGED <<arrayVars, raid>>

\* raid6_generator(x) of both table modules
GenGeneratorStep ==
    /\ gen' = GenCall("raid6_generator", gen.x, gen.y,
                      <<raid6_generator(gen.x), legacy_raid6_generator(gen.x)>>)
    /\ UNCHANGED <<arrayVars, raid>>

\* Gen::from_power(x) for the u8 x, and its value()
GenFromPowerU8 ==
    /\ gen' = GenCall("from_power_u8", gen.x, gen.y,
                      <<Gen_from_power_u8(gen.x), Gen_value(Gen_from_power_u8(gen.x))>>)
    /\ UNCHANGED <<arrayVars, raid>>

NextGenUnary ==
    \/ GenFromValue
    \/ GenFromPower
    \/ GenFromPowerU8
    \/ GenGeneratorStep

SpecGenUnary == InitGenUnary /\ [][NextGenUnary]_vars

\* Gen::from(x) * Gen::from(y)
GenMul ==
    /\ gen' = GenCall("mul", gen.x, gen.y, <<Gen_mul(Gen_from(gen.x), Gen_from(gen.y))>>)
    /\ UNCHANGED <<arrayVars, raid>>

\* Gen::from(x) + y
GenAdd ==
    /\ gen' = GenCall("add", gen.x, gen.y, <<Gen_add_u8(Gen_from(gen.x), gen.y)>>)
    /\ UNCHANGED <<arrayVars, raid>>

\* with a = Gen::from(x) and e = Gen::from(y): e.inverse(), e * e.inverse(),
\* a / e and (a * e) / e
GenDiv ==
    /\ \E a \in {Gen_from(gen.x)}, e \in {Gen_from(gen.y)} :
          gen' = GenCall("div", gen.x, gen.y,
                         <<Gen_inverse(e),
                           IF Gen_inverse(e) = GenPanic THEN GenPanic
                           ELSE Gen_mul(e, Gen_inverse(e)),
                           Gen_div(a, e),
                           Gen_div(Gen_mul(a, e), e)>>)
    /\ UNCHANGED <<arrayVars, raid>>

\* the denominator and the coefficients a and b of the two-drive recovery for
\* the data drives x and y: read and repair pass two distinct drives
GenCoeff ==
    /\ gen.x # gen.y
    /\ gen.x < 255
    /\ gen.y < 255
    /\ gen' = GenCall("coeff", gen.x, gen.y,
                      <<Gen_add_u8(Gen_from_power(gen.y - gen.x), 1),
                        coeff_a(gen.x, gen.y),
                        coeff_b(gen.x, gen.y)>>)
    /\ UNCHANGED <<arrayVars, raid>>

NextGenBinary ==
    \/ GenMul
    \/ GenAdd
    \/ GenDiv
    \/ GenCoeff

SpecGenBinary == InitGenBinary /\ [][NextGenBinary]_vars

(***************************************************************************)
(* The first simulation on its own: State::new draws the bytes, each       *)
(* action is one call.  RaidSim and the field arithmetic are unused.       *)
(***************************************************************************)
\* the calls of corrupt() made so far
corrupts_made == IF DOMAIN raid.times = {} THEN 0
                 ELSE IF Cardinality(DOMAIN raid.times) = 1 THEN raid.times[0]
                 ELSE raid.times[0] + raid.times[1]

\* State::new(drive_size, num_drives, level): every drive is Drive::random
InitLegacy ==
    /\ MTable_new
    /\ ArrayUnused
    /\ gen = GenCall("none", 0, 0, <<>>)
    /\ \E num_drives \in 1..MaxLegacyDrives, sz \in 1..MaxLegacySize :
          \E content \in [0..(num_drives - 1) -> [1..sz -> LegacyBytes]] :
              raid = LegacyState([i \in 0..(num_drives - 1) |->
                                      LegacyDrive_from_data(content[i])],
                                 [i \in 0..(num_drives - 1) |-> 0], <<>>, "new")

\* State::corrupt_random: drive r of random_range(0..len) is corrupted
LegacyCorruptRandom ==
    /\ raid.op # "Panic"
    /\ corrupts_made + 1 <= MaxCorrupts
    /\ \E r \in DOMAIN raid.drives :
          raid' = LegacyState([raid.drives EXCEPT ![r] = LegacyDrive_corrupt(@)],
                              [raid.times EXCEPT ![r] = @ + 1],
                              raid.found, "corrupt_random")
    /\ UNCHANGED <<arrayVars, gen>>

\* State::corrupt_two_random: the first two indices of a shuffle are corrupted;
\* idxs[1] is out of bounds when there is one drive
LegacyCorruptTwoRandom ==
    /\ raid.op # "Panic"
    /\ corrupts_made + 2 <= MaxCorrupts
    /\ IF Cardinality(DOMAIN raid.drives) < 2
       THEN raid' = [raid EXCEPT !.op = "Panic"]
       ELSE \E x \in DOMAIN raid.drives, y \in DOMAIN raid.drives :
               /\ x # y
               /\ raid' = LegacyState([raid.drives EXCEPT ![x] = LegacyDrive_corrupt(@),
                                                          ![y] = LegacyDrive_corrupt(@)],
                                      [raid.times EXCEPT ![x] = @ + 1, ![y] = @ + 1],
                                      raid.found, "corrupt_two_random")
    /\ UNCHANGED <<arrayVars, gen>>

\* State::find_corrupted
LegacyFindCorrupted ==
    /\ raid.op # "Panic"
    /\ raid' = LegacyState(raid.drives, raid.times,
                           State_find_corrupted(raid.drives), "find_corrupted")
    /\ UNCHANGED <<arrayVars, gen>>

NextLegacy ==
    \/ LegacyCorruptRandom
    \/ LegacyCorruptTwoRandom
    \/ LegacyFindCorrupted

SpecLegacy == InitLegacy /\ [][NextLegacy]_vars

(***************************************************************************)
(* The properties.  The parity invariants are stated from the definition   *)
(* of the code: g * v is v shifted left once, reduced by x^8+x^4+x^3+x^2+1.*)
(***************************************************************************)
\* g * v in GF(2^8)
GfTimesG(v) == IF v >= 128 THEN Xor((2 * v) % 256, 29) ELSE 2 * v

\* g^k * v
RECURSIVE GfPowTimes(_, _)
GfPowTimes(k, v) == IF k = 0 THEN v ELSE GfTimesG(GfPowTimes(k - 1, v))

\* d_0[i] ^ ... ^ d_(n-1)[i]
RECURSIVE PSum(_, _, _)
PSum(ds, i, n) ==
    IF n = 0 THEN 0 ELSE Xor(PSum(ds, i, n - 1), ds[data_start + n - 1].data[i])

\* g^0 * d_0[i] ^ ... ^ g^(n-1) * d_(n-1)[i]
RECURSIVE QSum(_, _, _)
QSum(ds, i, n) ==
    IF n = 0 THEN 0
    ELSE Xor(QSum(ds, i, n - 1), GfPowTimes(n - 1, ds[data_start + n - 1].data[i]))

PInv(ds) ==
    \A i \in 0..(drive_size - 1) : ds[0].data[i] = PSum(ds, i, data_count(ds))

QInv(ds) ==
    mode = "Raid6" =>
        \A i \in 0..(drive_size - 1) : ds[1].data[i] = QSum(ds, i, data_count(ds))

\* every address reads back as the byte last written to it
ReadsWritten(ds) == \A a \in Addresses : read(ds, a) = RetVal("Ok", written[a])

\* the number of distinct drives that are failed or unformatted
Unavailable(ds) == Cardinality(failed(ds) \cup unformatted(ds))

\* C1: on an initialised array with no failed and no unformatted drive, after
\* any sequence of successful writes every address reads back as the byte most
\* recently written to it, and as 0 if it was never written.
C1_ReadAfterWrite == phase = "clean" => ReadsWritten(drives)

\* C1 happens: a second write has returned Ok and a written byte reads back
C1_Witness ==
    /\ phase = "clean"
    /\ ret = Ret("write", "Ok")
    /\ nWrites = 2
    /\ \E a \in Addresses : written[a] # 0 /\ read(drives, a) = RetVal("Ok", written[a])

\* C2: when at most p drives (any mix of P, Q and data drives) are marked
\* failed on an Ok array, the state is Degraded and every address still reads
\* as the byte it held before the failures.
C2_ReadsSurviveFailures ==
    (phase = "failed" /\ Cardinality(failed(drives)) <= parity_count(mode)) =>
        (state(drives) = "Degraded" /\ ReadsWritten(drives))

\* C3: in a Degraded state whose unavailable drives have been replaced by
\* blank unformatted drives and not yet repaired, every address reads as the
\* byte last written to it.
C3_ReadsSurviveReplacement ==
    (phase \in {"replaced", "replacedW"} /\ failed(drives) = {}
                                         /\ state(drives) = "Degraded") =>
        ReadsWritten(drives)

\* C4: after failing up to p drives of an Ok array, writing, then
\* replace_failed_drives and repair, every drive is byte-identical to the
\* drive of a never-failed copy of the array that took the same writes.
C4_RecoveryFidelity ==
    phase = "repaired" => \A i \in DOMAIN drives : drives[i].data = replica[i].data

\* C5: once the unavailable drives have been replaced and repaired, the
\* address of the last write, issued in a Degraded state, reads as the byte
\* that write stored.
C5_DegradedWriteSurvivesRepair ==
    (phase \in {"repaired", "repairedW"} /\ lastWrite.st = "Degraded") =>
        read(drives, lastWrite.a) = RetVal("Ok", written[lastWrite.a])

\* C6: after init and any sequence of successful writes on an array with no
\* failed or unformatted drive, P[i] on drive 0 is the XOR of d_k[i] over all
\* data drives k, for every offset i.
C6_PParityInvariant == phase = "clean" => PInv(drives)

\* C6 happens: two data drives hold a non-zero byte at one offset
C6_Witness ==
    /\ phase = "clean"
    /\ ret = Ret("write", "Ok")
    /\ data_count(drives) >= 2
    /\ \E i \in 0..(drive_size - 1) :
          /\ data_drive(drives, 0).data[i] # 0
          /\ data_drive(drives, 1).data[i] # 0
          /\ data_drive(drives, 0).data[i] # data_drive(drives, 1).data[i]
          /\ drives[0].data[i] = Xor(data_drive(drives, 0).data[i], data_drive(drives, 1).data[i])

\* C7: in RAID-6, after init and any sequence of successful writes on an array
\* with no failed or unformatted drive, Q[i] on drive 1 is the XOR over the
\* data drives k of g^k * d_k[i], k counted from 0, for every offset i.
C7_QParityInvariant == phase = "clean" => QInv(drives)

\* C7 happens: a RAID-6 array whose data drive 1 holds a non-zero byte
C7_Witness ==
    /\ phase = "clean"
    /\ mode = "Raid6"
    /\ ret = Ret("write", "Ok")
    /\ data_count(drives) >= 2
    /\ \E i \in 0..(drive_size - 1) :
          /\ data_drive(drives, 0).data[i] # 0
          /\ data_drive(drives, 1).data[i] # 0
          /\ drives[1].data[i] # 0

\* C8: from a Degraded state in which every failed drive has been replaced,
\* repair returns Ok, the state it leaves is Ok, and the P invariant and the
\* RAID-6 Q invariant hold on the stored contents of the drives.
C8_RepairRestoresOk ==
    (phase \in {"replaced", "replacedW"} /\ failed(drives) = {}
                                         /\ state(drives) = "Degraded") =>
        LET r == repair(drives)
        IN  r.tag = "Ok" /\ state(r.ds) = "Ok" /\ PInv(r.ds) /\ QInv(r.ds)

\* C9: with u unformatted drives, f failed drives and c = u + f, state() is
\* Uninit if u = N; otherwise Failed if c > p or (c > 1 and the mode is
\* RAID-5); otherwise Degraded if c > 0; otherwise Ok.
C9_StateFromFlags ==
    LET N == Cardinality(DOMAIN drives)
        u == Cardinality({i \in DOMAIN drives : ~drives[i].formatted})
        f == Cardinality({i \in DOMAIN drives : drives[i].failed})
        c == u + f
        p == parity_count(mode)
    IN  state(drives) =
            IF u = N THEN "Uninit"
            ELSE IF c > p \/ (c > 1 /\ mode = "Raid5") THEN "Failed"
            ELSE IF c > 0 THEN "Degraded"
            ELSE "Ok"

\* C9 happens: a RAID-6 array with one failed and one unformatted drive
C9_Witness ==
    /\ mode = "Raid6"
    /\ Cardinality(failed(drives)) = 1
    /\ Cardinality(unformatted(drives)) = 1
    /\ state(drives) = "Degraded"

\* C10: state() is Degraded whenever between 1 and p distinct drives are
\* unavailable (failed or unformatted), and Failed only when more than p
\* distinct drives are unavailable.
C10_StateCountsDistinctDrives ==
    /\ Unavailable(drives) \in 1..parity_count(mode) => state(drives) = "Degraded"
    /\ state(drives) = "Failed" => Unavailable(drives) > parity_count(mode)

\* the capacity (N - p) * S, from the drive count
Capacity == (Cardinality(DOMAIN drives) - parity_count(mode)) * drive_size

\* C11 as stated: whenever state() is Failed, read(a) and write(a, b) return
\* the array-failed error for every a, in range or not, and every b, and
\* leave every drive's bytes and flags unchanged.
C11_FailedRejectsAllIO ==
    state(drives) = "Failed" =>
        \A a \in 0..Capacity, b \in WriteBytes :
            /\ read(drives, a).tag = "Failed"
            /\ write(drives, a, b) = RetDs("Failed", drives)

\* C11 amended: whenever state() is Failed, read(a) and write(a, b) return
\* the array-failed error for every a below the capacity and OffsetTooLarge(a)
\* for every a at or above it, and in both cases leave every drive's bytes
\* and flags unchanged.
C11_FailedRejectsIOInRange ==
    state(drives) = "Failed" =>
        \A a \in 0..(Capacity + 1), b \in WriteBytes :
            LET tag == IF a < Capacity THEN "Failed" ELSE "OffsetTooLarge"
            IN  /\ read(drives, a).tag = tag
                /\ write(drives, a, b) = RetDs(tag, drives)

\* C11 happens: a Failed RAID-6 array rejects an in-range write and read
C11_Witness ==
    /\ state(drives) = "Failed"
    /\ mode = "Raid6"
    /\ ret.op \in {"fail_random", "fail_random_data", "fail_p_parity", "fail_q_parity"}
    /\ write(drives, 0, 85) = RetDs("Failed", drives)
    /\ read(drives, 0).tag = "Failed"
    /\ read(drives, Capacity).tag = "OffsetTooLarge"

\* C12: size() is (N - p) * S; read(a) and write(a, b) with a at or above it
\* return OffsetTooLarge(a) and change no drive, and every a below it passes
\* the range check.
C12_Capacity ==
    /\ size(drives) = Capacity
    /\ \A a \in 0..(Capacity + 1), b \in WriteBytes :
          IF a >= Capacity
          THEN /\ read(drives, a) = RetVal("OffsetTooLarge", a)
               /\ write(drives, a, b) = RetDs("OffsetTooLarge", drives)
          ELSE /\ read(drives, a).tag # "OffsetTooLarge"
               /\ write(drives, a, b).tag # "OffsetTooLarge"

\* C12 happens: a Degraded array refuses the first address past the capacity
\* and serves the last one below it
C12_Witness ==
    /\ state(drives) = "Degraded"
    /\ Capacity >= 2
    /\ read(drives, Capacity) = RetVal("OffsetTooLarge", Capacity)
    /\ read(drives, Capacity - 1).tag = "Ok"
    /\ write(drives, Capacity - 1, 85).tag = "Ok"

\* C13: repair called on a Degraded array while some drive is still failed
\* (not yet replaced) returns the DrivesNeedReplaced error and changes no
\* drive byte and no formatted flag, whether or not other drives are
\* unformatted.
C13_RepairNeedsReplacement ==
    (state(drives) = "Degraded" /\ failed(drives) # {}) =>
        repair(drives) = RetDs("DrivesNeedReplaced", drives)

\* C14: repair called in Uninit returns NotInitialized, called in Failed
\* returns the array-failed error, called in Ok returns Ok, and in all three
\* cases no drive byte and no drive flag changes.
C14_RepairOnlyInDegraded ==
    /\ state(drives) = "Uninit" => repair(drives) = RetDs("NotInitialized", drives)
    /\ state(drives) = "Failed" => repair(drives) = RetDs("Failed", drives)
    /\ state(drives) = "Ok" => repair(drives) = RetDs("Ok", drives)

\* C14 happens: repair has returned the array-failed error on a Failed array
C14_Witness ==
    /\ ret = Ret("repair", "Failed")
    /\ state(drives) = "Failed"
    /\ unformatted(drives) # {}

\* C15: no call of init, read, write, fail_*, replace_failed_drives or repair
\* panics: each completes with a value or a structured error.
C15_NoPanic == ret.tag # "Panic"

\* C16: Failed is terminal: once state() is Failed, no read, write, repair,
\* replace_failed_drives or fail_* call leaves a state other than Failed.
C16_FailedIsTerminal ==
    [][(state(drives) = "Failed" /\ ret'.op # "init") => state(drives') = "Failed"]_vars

\* C17: repair is the only operation that takes the array from Degraded to
\* Ok: no init, read, write, fail_* or replace_failed_drives call made in a
\* Degraded state leaves state() equal to Ok.
C17_OnlyRepairLeavesDegraded ==
    [][(state(drives) = "Degraded" /\ state(drives') = "Ok") => ret'.op = "repair"]_vars

\* C18: whenever a repair call returns an error, every drive's bytes and
\* every drive's flags are what they were before the call.
C18_RepairAllOrNothing ==
    LET r == repair(drives)
    IN  r.tag \notin {"Ok", "Panic"} => r.ds = drives

\* C18 happens: repair has returned a drive error on a Degraded array that
\* holds written bytes and has an unformatted drive to rebuild
C18_Witness ==
    /\ ret = Ret("repair", "DriveFailed")
    /\ state(drives) = "Degraded"
    /\ unformatted(drives) # {}
    /\ \E a \in Addresses : written[a] # 0
    /\ repair(drives) = RetDs("DriveFailed", drives)

\* C19: on a Degraded array whose failed drives have been replaced, a second
\* repair right after a first repair that returned Ok returns Ok, leaves
\* every drive as the first repair left it, and the final state is Ok.
C19_RepairIdempotent ==
    (state(drives) = "Degraded" /\ failed(drives) = {}) =>
        LET r1 == repair(drives)
        IN  r1.tag = "Ok" =>
                /\ repair(r1.ds) = RetDs("Ok", r1.ds)
                /\ state(r1.ds) = "Ok"

\* C19 happens: the first repair has rebuilt two replaced drives of a RAID-6
\* array, and a second repair changes nothing
C19_Witness ==
    /\ phase = "repaired"
    /\ mode = "Raid6"
    /\ nFails >= 2
    /\ ret = Ret("repair", "Ok")
    /\ state(drives) = "Ok"
    /\ repair(drives) = RetDs("Ok", drives)

\* what a parity drive may become: kept, every byte corrupted, marked
\* failed, or both
ParityDriveVariants(d) ==
    {[data |-> [o \in DOMAIN d.data |-> IF corrupt THEN Xor(d.data[o], 255) ELSE d.data[o]],
      failed |-> d.failed \/ fails,
      formatted |-> d.formatted] : corrupt \in BOOLEAN, fails \in BOOLEAN}

\* the arrays that agree with ds on every data drive and differ on P and Q
ParityVariants(ds) ==
    {[i \in DOMAIN ds |-> IF i = 0 THEN vp
                          ELSE IF i = 1 /\ mode = "Raid6" THEN vq
                          ELSE ds[i]] :
        vp \in ParityDriveVariants(ds[0]), vq \in ParityDriveVariants(ds[1])}

\* C20: two arrays that agree on all data drives and differ only in the bytes
\* or the failed status of P and Q, neither of them Failed, return the same
\* byte for every address on a data drive that has not failed.
C20_ReadIgnoresParity ==
    \A alt \in ParityVariants(drives) :
        (state(drives) # "Failed" /\ state(alt) # "Failed") =>
            \A a \in Addresses :
                ~drives[parity_count(mode) + (a \div drive_size)].failed =>
                    read(alt, a) = read(drives, a)

\* C20 happens: an array holding a written byte, and a variant of it whose P
\* drive is corrupted, both serve that byte
C20_Witness ==
    /\ phase = "clean"
    /\ \E a \in Addresses, alt \in ParityVariants(drives) :
          /\ written[a] # 0
          /\ alt[0].data # drives[0].data
          /\ state(alt) # "Failed"
          /\ ~drives[parity_count(mode) + (a \div drive_size)].failed
          /\ read(drives, a) = RetVal("Ok", written[a])
          /\ read(alt, a) = RetVal("Ok", written[a])

\* what a successful write(a, b) does to the array ds, giving ds2: the byte b
\* on the data drive unless that drive has failed, P[o] ^ old ^ b on P unless P
\* has failed, Q[o] ^ g^k * (old ^ b) on Q in RAID-6 unless Q has failed, and
\* nothing else
WriteEffect(ds, ds2, a, b) ==
    LET k == a \div drive_size
        o == a % drive_size
        i == parity_count(mode) + k
        old == read(ds, a).val
        expect(j, x) ==
            IF ds[j].failed \/ x # o THEN ds[j].data[x]
            ELSE IF j = i THEN b
            ELSE IF j = 0 THEN Xor(Xor(ds[0].data[o], old), b)
            ELSE IF j = 1 /\ mode = "Raid6"
                 THEN Xor(ds[1].data[o], GfPowTimes(k, Xor(old, b)))
            ELSE ds[j].data[x]
    IN  /\ DOMAIN ds2 = DOMAIN ds
        /\ \A j \in DOMAIN ds :
              /\ ds2[j].failed = ds[j].failed
              /\ ds2[j].formatted = ds[j].formatted
              /\ \A x \in 0..(drive_size - 1) : ds2[j].data[x] = expect(j, x)

\* C21: every write(a, b) either returns Ok, having stored b on the data drive
\* if that drive has not failed, updated P[o] if P has not failed and updated
\* Q[o] in RAID-6 if Q has not failed, or returns the error for an invalid
\* address or for the Failed state with no drive byte changed.
C21_WriteAtomic ==
    [][nWrites' = nWrites + 1 =>
          \/ /\ ret' = Ret("write", "Ok")
             /\ WriteEffect(drives, drives', lastWrite'.a, written'[lastWrite'.a])
          \/ /\ ret' \in {Ret("write", "OffsetTooLarge"), Ret("write", "Failed")}
             /\ drives' = drives]_vars

\* C22: a freshly constructed array has state Uninit; after init, and before
\* any write, every drive is formatted, state() is Ok, every address reads 0,
\* and P (and in RAID-6 Q) are all zero, so both parity invariants hold.
C22_FreshInit ==
    /\ phase = "new" => state(drives) = "Uninit"
    /\ (phase = "clean" /\ lastWrite.st = "none") =>
          /\ \A i \in DOMAIN drives : Drive_is_formatted(drives[i])
          /\ state(drives) = "Ok"
          /\ \A a \in Addresses : read(drives, a) = RetVal("Ok", 0)
          /\ \A o \in 0..(drive_size - 1) :
                /\ p_parity(drives).data[o] = 0
                /\ mode = "Raid6" => q_parity(drives).data[o] = 0
          /\ PInv(drives)
          /\ QInv(drives)

\* C22 happens: init has just returned on a fresh RAID-6 array
C22_Witness ==
    /\ phase = "clean"
    /\ lastWrite.st = "none"
    /\ mode = "Raid6"
    /\ ret = Ret("init", "Ok")
    /\ state(drives) = "Ok"

\* C23: replace_failed_drives replaces every failed drive by a zero-filled,
\* non-failed, unformatted drive of the same size and leaves every other drive
\* as it was; afterwards no drive is failed, the number of unformatted drives
\* has grown by the number of drives that were failed and formatted, and an
\* array that was Degraded is still Degraded.
C23_ReplaceFrame ==
    [][ret'.op = "replace_failed_drives" =>
          /\ DOMAIN drives' = DOMAIN drives
          /\ \A i \in DOMAIN drives :
                IF drives[i].failed
                THEN drives'[i] = [data |-> [o \in 0..(drive_size - 1) |-> 0],
                                   failed |-> FALSE, formatted |-> FALSE]
                ELSE drives'[i] = drives[i]
          /\ failed(drives') = {}
          /\ Cardinality(unformatted(drives')) =
                Cardinality(unformatted(drives))
                + Cardinality({i \in DOMAIN drives :
                                  drives[i].failed /\ drives[i].formatted})
          /\ state(drives) = "Degraded" => state(drives') = "Degraded"]_vars

\* C23 happens: a Degraded array that holds written bytes has had its failed
\* drive replaced, and is Degraded with one more unformatted drive
C23_Witness ==
    /\ ret = Ret("replace_failed_drives", "Ok")
    /\ phase = "replaced"
    /\ state(drives) = "Degraded"
    /\ unformatted(drives) # {}
    /\ \E i \in DOMAIN drives, o \in 0..(drive_size - 1) :
          drives[i].formatted /\ drives[i].data[o] # 0

\* the product of the bytes a and b as polynomials over GF(2), reduced modulo
\* x^8 + x^4 + x^3 + x^2 + 1: the XOR of g^k * a over the bits k set in b
GfMulTerm(a, b, k) == IF (b \div (2 ^ k)) % 2 = 1 THEN GfPowTimes(k, a) ELSE 0

GfMul(a, b) ==
    Xor(Xor(Xor(GfMulTerm(a, b, 0), GfMulTerm(a, b, 1)),
            Xor(GfMulTerm(a, b, 2), GfMulTerm(a, b, 3))),
        Xor(Xor(GfMulTerm(a, b, 4), GfMulTerm(a, b, 5)),
            Xor(GfMulTerm(a, b, 6), GfMulTerm(a, b, 7))))

\* C24: for every i in 0..254, from_power(i) * from_power(-i) equals
\* from_power(0), whose byte value is 1; the exponent -i is reduced to its
\* residue in 0..254 modulo 255; and from_power(255) equals from_power(0).
C24_InversePowers ==
    gen.op = "from_power" =>
        /\ gen.x <= 254 =>
              /\ gen.out[3] = Gen_from_power(0)
              /\ Gen_value(gen.out[3]) = 1
              /\ GfMul(Gen_value(gen.out[1]), Gen_value(gen.out[2])) = 1
              /\ gen.out[2] \in 0..254
              /\ (gen.out[2] + gen.x) % 255 = 0
        /\ gen.x = 255 => gen.out[1] = Gen_from_power(0)

\* C24 happens: g^100 * g^(-100) has been computed, with -100 stored as 155
C24_Witness ==
    /\ gen.op = "from_power"
    /\ gen.x = 100
    /\ gen.out[2] = 155
    /\ gen.out[3] = 0

\* C25: for every byte v, 0 included, Gen::from(v).value() = v; the antilog
\* table n -> g^n maps 0..254 one-to-one onto the nonzero bytes 1..255 and the
\* log table is its inverse, with from(1) of exponent 0 and from(2) of
\* exponent 1.
C25_ByteRoundTrip ==
    gen.op = "from" =>
        /\ gen.out[2] = gen.x
        /\ gen.x # 0 =>
              /\ gen.out[1] \in 0..254
              /\ n_to_gn(gen.out[1]) = gen.x
        /\ gen.x <= 254 =>
              /\ n_to_gn(gen.x) \in 1..255
              /\ gn_to_n(n_to_gn(gen.x)) = gen.x
        /\ gen.x = 1 => gen.out[1] = 0
        /\ gen.x = 2 => gen.out[1] = 1

\* C25 happens: the byte 0 has been converted to the zero element and back
C25_Witness ==
    /\ gen.op = "from"
    /\ gen.x = 0
    /\ gen.out = <<ZERO, 0>>

\* C26: the antilog table starts at antilog[0] = 1 and each entry is the step
\* "shift left by one, XOR with 0x1D if the high bit was set before the shift"
\* of the entry before it; from_power(8).value() = 0x1D; and the bit-by-bit
\* step of the first table module returns the same byte for every byte.
C26_GeneratorStep ==
    /\ gen.op = "raid6_generator" =>
          /\ gen.out[1] = GfTimesG(gen.x)
          /\ gen.out[2] = gen.out[1]
          /\ n_to_gn(0) = 1
          /\ gen.x <= 253 => n_to_gn(gen.x + 1) = GfTimesG(n_to_gn(gen.x))
    /\ (gen.op = "from_power" /\ gen.x = 8) => gen.out[4] = 29

\* C26 happens: both steps have been applied to a byte with the high bit set
C26_Witness ==
    /\ gen.op = "raid6_generator"
    /\ gen.x = 128
    /\ gen.out = <<29, 29>>

\* the bytes with one bit set, and 0: every byte is an XOR of some of them
UnitBytes == {0} \cup {2 ^ k : k \in 0..7}

\* C27: multiplication is total; the product of two elements is zero if either
\* is zero and otherwise has the exponent (log e + log f) mod 255; its byte
\* value is the product of the two bytes as polynomials over GF(2) reduced
\* modulo x^8 + x^4 + x^3 + x^2 + 1; and it distributes over the XOR of bytes:
\* e * (f ^ z) = e * f ^ e * z for every e, every f and every z with one bit
\* set, from which every z follows one bit at a time.
C27_Multiplication ==
    gen.op = "mul" =>
        /\ gen.out[1] \in 0..255
        /\ (gen.x = 0 \/ gen.y = 0) => gen.out[1] = ZERO
        /\ (gen.x # 0 /\ gen.y # 0) =>
              gen.out[1] = (gn_to_n(gen.x) + gn_to_n(gen.y)) % 255
        /\ Gen_value(gen.out[1]) = GfMul(gen.x, gen.y)
        /\ \A z \in UnitBytes :
              Gen_value(Gen_mul(Gen_from(gen.x), Gen_from(Xor(gen.y, z)))) =
                  Xor(Gen_value(gen.out[1]),
                      Gen_value(Gen_mul(Gen_from(gen.x), Gen_from(z))))

\* C27 happens: {03} * {07} = {09} has been computed
C27_Witness ==
    /\ gen.op = "mul"
    /\ gen.x = 3
    /\ gen.y = 7
    /\ Gen_value(gen.out[1]) = 9

\* C28: adding a byte b to an element e yields the element whose byte value is
\* to_byte(e) XOR b, for every element e, the zero element included, and every
\* byte b; for b = to_byte(e) the result is the zero element.
C28_AddByte ==
    gen.op = "add" =>
        /\ gen.out[1] # GenPanic
        /\ Gen_value(gen.out[1]) = Xor(Gen_value(Gen_from(gen.x)), gen.y)
        /\ gen.y = Gen_value(Gen_from(gen.x)) => gen.out[1] = ZERO

\* C29: for every nonzero element e, inverse(e) has the exponent
\* (255 - log e) mod 255 and e * inverse(e) = 1; a / e equals a * inverse(e),
\* so (a * e) / e = a for every a; inverting or dividing by the zero element
\* panics, and nothing else does.
C29_InverseAndDivision ==
    gen.op = "div" =>
        /\ gen.y # 0 =>
              /\ gen.out[1] = (255 - gn_to_n(gen.y)) % 255
              /\ Gen_value(gen.out[2]) = 1
              /\ GfMul(gen.y, Gen_value(gen.out[1])) = 1
              /\ gen.out[3] # GenPanic
              /\ Gen_value(gen.out[3]) = GfMul(gen.x, Gen_value(gen.out[1]))
              /\ gen.out[4] = Gen_from(gen.x)
        /\ gen.y = 0 =>
              /\ gen.out[1] = GenPanic
              /\ gen.out[3] = GenPanic
              /\ gen.out[4] = GenPanic

\* C29 happens: {03} / {02} and ({03} * {02}) / {02} = {03} have been computed
\* with the inverse g^254 of {02}
C29_Witness ==
    /\ gen.op = "div"
    /\ gen.x = 3
    /\ gen.y = 2
    /\ gen.out[1] = 254
    /\ gen.out[4] = Gen_from(3)

\* C30: for all data-drive indices x # y in 0..254, in either order, the
\* denominator g^(y-x) + 1 of the two-drive recovery is a nonzero field
\* element, so computing A = g^(y-x) / (g^(y-x) + 1) and
\* B = g^(-x) / (g^(y-x) + 1) never divides by zero.
C30_DenominatorNonzero ==
    gen.op = "coeff" =>
        /\ gen.out[1] \in 0..254
        /\ Gen_value(gen.out[1]) = Xor(Gen_value(Gen_from_power(gen.y - gen.x)), 1)
        /\ Gen_value(gen.out[1]) # 0
        /\ gen.out[2] # GenPanic
        /\ gen.out[3] # GenPanic

\* C30 happens: the coefficients have been computed for x = 254 and y = 0,
\* where y - x = -254 is the exponent 1 and the denominator is g + 1 = {03}
C30_Witness ==
    /\ gen.op = "coeff"
    /\ gen.x = 254
    /\ gen.y = 0
    /\ Gen_value(gen.out[1]) = 3
    /\ gen.out[2] \in 0..254
    /\ gen.out[3] \in 0..254

\* the XOR of d_k[i] over the data drives k < n that are not in ignore
RECURSIVE PSumIgnore(_, _, _, _)
PSumIgnore(ds, i, n, ignore) ==
    IF n = 0 THEN 0
    ELSE IF (n - 1) \in ignore THEN PSumIgnore(ds, i, n - 1, ignore)
    ELSE Xor(PSumIgnore(ds, i, n - 1, ignore),
             ds[parity_count(mode) + n - 1].data[i])

\* the XOR of g^k * d_k[i] over the data drives k < n that are not in ignore
RECURSIVE QSumIgnore(_, _, _, _)
QSumIgnore(ds, i, n, ignore) ==
    IF n = 0 THEN 0
    ELSE IF (n - 1) \in ignore THEN QSumIgnore(ds, i, n - 1, ignore)
    ELSE Xor(QSumIgnore(ds, i, n - 1, ignore),
             GfPowTimes(n - 1, ds[parity_count(mode) + n - 1].data[i]))

\* the number of data drives of the mode: all drives but P, and Q in RAID-6
DataCount(ds) == Cardinality(DOMAIN ds) - parity_count(mode)

\* no drive is failed and the unformatted drives are exactly those of us
Replaced(ds, us) ==
    /\ \A j \in DOMAIN ds : ~ds[j].failed
    /\ {j \in DOMAIN ds : ~ds[j].formatted} = us

\* every write that succeeded was issued before the first failure
WrittenBeforeFailure == phase = "replaced" /\ lastWrite.st \in {"Ok", "none"}

\* C31: in RAID-5 and RAID-6, when exactly one data drive k has been replaced
\* (k = 0 included) and no other drive is unavailable, repair sets
\* d_k[i] = P[i] XOR (XOR of d_j[i] over the data drives j # k) for every
\* offset i, changes no other drive, and the array then reads back the data
\* written before the failure.
C31_RepairOneDataDrive ==
    [][\A k \in 0..(DataCount(drives) - 1) :
          (ret'.op = "repair" /\ Replaced(drives, {parity_count(mode) + k})) =>
              /\ ret'.tag = "Ok"
              /\ \A i \in 0..(drive_size - 1) :
                    drives'[parity_count(mode) + k].data[i] =
                        Xor(drives[0].data[i],
                            PSumIgnore(drives, i, DataCount(drives), {k}))
              /\ \A j \in DOMAIN drives :
                    j # parity_count(mode) + k => drives'[j] = drives[j]
              /\ WrittenBeforeFailure => ReadsWritten(drives')]_vars

\* the parity drives of the mode: P, and Q in RAID-6
ParityDrives == 0..(parity_count(mode) - 1)

\* C32: when the replaced drives are parity drives only (P alone, Q alone, or
\* P and Q in RAID-6), repair recomputes each replaced parity drive from the
\* data drives alone, P[i] = XOR of d_k[i] and Q[i] = XOR of g^k * d_k[i], so
\* that it reflects the writes made while the parity drives were failed, and
\* changes no byte of a data drive.
C32_RepairParityOnly ==
    [][\A us \in (SUBSET ParityDrives) \ {{}} :
          (ret'.op = "repair" /\ Replaced(drives, us)) =>
              /\ ret'.tag = "Ok"
              /\ \A i \in 0..(drive_size - 1) :
                    /\ 0 \in us => drives'[0].data[i] = PSum(drives, i, DataCount(drives))
                    /\ 1 \in us => drives'[1].data[i] = QSum(drives, i, DataCount(drives))
              /\ \A j \in DOMAIN drives :
                    j \notin us => drives'[j] = drives[j]]_vars

\* C32 happens: P and Q of a RAID-6 array were failed, a byte was written
\* meanwhile, both were replaced, and repair gives P and Q that byte's parity
C32_Witness ==
    /\ mode = "Raid6"
    /\ phase = "replaced"
    /\ lastWrite.st = "Degraded"
    /\ Replaced(drives, {0, 1})
    /\ \E i \in 0..(drive_size - 1) :
          /\ PSum(drives, i, DataCount(drives)) # 0
          /\ repair(drives).tag = "Ok"
          /\ repair(drives).ds[0].data[i] = PSum(drives, i, DataCount(drives))
          /\ repair(drives).ds[1].data[i] = QSum(drives, i, DataCount(drives))
          /\ repair(drives).ds[1].data[i] # repair(drives).ds[0].data[i]

\* C33: in RAID-6, when P and one data drive k have been replaced, repair
\* recovers d_k[i] = (Q[i] XOR Q-fold(i, {k})) * g^(-k) for every offset i,
\* then recomputes P from the recovered data; afterwards the contents equal
\* the data written before the failure and the P and Q invariants hold.
C33_RepairPAndData ==
    [][\A k \in 0..(DataCount(drives) - 1) :
          (mode = "Raid6" /\ ret'.op = "repair" /\ Replaced(drives, {0, 2 + k})) =>
              /\ ret'.tag = "Ok"
              /\ \A i \in 0..(drive_size - 1) :
                    /\ GfPowTimes(k, drives'[2 + k].data[i]) =
                          Xor(drives[1].data[i],
                              QSumIgnore(drives, i, DataCount(drives), {k}))
                    /\ drives'[0].data[i] = PSum(drives', i, DataCount(drives))
              /\ \A j \in DOMAIN drives :
                    j \notin {0, 2 + k} => drives'[j] = drives[j]
              /\ WrittenBeforeFailure =>
                    ReadsWritten(drives') /\ PInv(drives') /\ QInv(drives')]_vars

\* C33 happens: P and data drive 1 of a RAID-6 array holding a byte on that
\* drive were replaced, and repair recovers the byte from Q
C33_Witness ==
    /\ mode = "Raid6"
    /\ WrittenBeforeFailure
    /\ Replaced(drives, {0, 3})
    /\ \E i \in 0..(drive_size - 1) :
          /\ written[drive_size + i] # 0
          /\ repair(drives).tag = "Ok"
          /\ repair(drives).ds[3].data[i] = written[drive_size + i]
          /\ repair(drives).ds[0].data[i] # 0

\* C34: in RAID-6, when Q and one data drive k have been replaced, repair
\* first recovers data drive k through P, d_k[i] = P[i] XOR P-fold(i, {k}),
\* and only then recomputes Q from the data drives, so that Q is the weighted
\* XOR of the recovered contents of drive k and not of the blank drive.
C34_RepairQAndData ==
    [][\A k \in 0..(DataCount(drives) - 1) :
          (mode = "Raid6" /\ ret'.op = "repair" /\ Replaced(drives, {1, 2 + k})) =>
              /\ ret'.tag = "Ok"
              /\ \A i \in 0..(drive_size - 1) :
                    /\ drives'[2 + k].data[i] =
                          Xor(drives[0].data[i],
                              PSumIgnore(drives, i, DataCount(drives), {k}))
                    /\ drives'[1].data[i] = QSum(drives', i, DataCount(drives))
              /\ \A j \in DOMAIN drives :
                    j \notin {1, 2 + k} => drives'[j] = drives[j]]_vars

\* d_x = A * (P xor P_xy) xor B * (Q xor Q_xy) at offset i of the array ds,
\* with A = g^(y-x) / (g^(y-x) + 1) and B = g^(-x) / (g^(y-x) + 1)
DoubleX(ds, x, y, i) ==
    Xor(GfMul(Gen_value(coeff_a(x, y)),
              Xor(ds[0].data[i], PSumIgnore(ds, i, DataCount(ds), {x, y}))),
        GfMul(Gen_value(coeff_b(x, y)),
              Xor(ds[1].data[i], QSumIgnore(ds, i, DataCount(ds), {x, y}))))

\* d_y = (P xor P_xy) xor d_x
DoubleY(ds, x, y, i) ==
    Xor(Xor(ds[0].data[i], PSumIgnore(ds, i, DataCount(ds), {x, y})),
        DoubleX(ds, x, y, i))

\* the data drives x and y are failed and every other drive is available
TwoDataFailed(ds, x, y) ==
    /\ {j \in DOMAIN ds : ds[j].failed} = {2 + x, 2 + y}
    /\ \A j \in DOMAIN ds : ds[j].formatted

\* C35: in RAID-6, for every two distinct data drives x and y that are failed
\* (read, either of them addressed) or replaced (repair), in every array, one
\* of exactly two data drives included, the recovered bytes are
\* d_x = A * (P xor P_xy) xor B * (Q xor Q_xy) and d_y = (P xor P_xy) xor d_x,
\* and both are the bytes last written to those drives.
C35_TwoDataDrives ==
    [][\A x \in 0..(DataCount(drives) - 1), y \in 0..(DataCount(drives) - 1) :
          (mode = "Raid6" /\ x # y) =>
              /\ TwoDataFailed(drives, x, y) =>
                    \A i \in 0..(drive_size - 1) :
                        /\ read(drives, x * drive_size + i) =
                              RetVal("Ok", DoubleX(drives, x, y, i))
                        /\ phase \in {"failed", "failedW"} =>
                              DoubleX(drives, x, y, i) = written[x * drive_size + i]
              /\ (x < y /\ ret'.op = "repair" /\ Replaced(drives, {2 + x, 2 + y})) =>
                    /\ ret'.tag = "Ok"
                    /\ \A i \in 0..(drive_size - 1) :
                          /\ drives'[2 + x].data[i] = DoubleX(drives, x, y, i)
                          /\ drives'[2 + y].data[i] = DoubleY(drives, x, y, i)
                    /\ WrittenBeforeFailure => ReadsWritten(drives')]_vars

\* C36: for every offset i and every set ignore of data-drive indices whose
\* complement holds no failed drive, P-fold(i, ignore) returns the XOR of
\* d_k[i] over the data drives k not in ignore and Q-fold(i, ignore) the XOR of
\* g^k * d_k[i] over the same k: 0 for both when ignore holds every data
\* drive, the full P and Q bytes when ignore is empty.
C36_Folds ==
    \A i \in 0..(drive_size - 1), ignore \in SUBSET (0..(DataCount(drives) - 1)) :
        (\A k \in 0..(DataCount(drives) - 1) :
            k \notin ignore => ~drives[parity_count(mode) + k].failed) =>
            /\ p_parity_offset_ignore(drives, i, ignore) =
                  RetVal("Ok", PSumIgnore(drives, i, DataCount(drives), ignore))
            /\ q_parity_offset_ignore(drives, i, ignore) =
                  RetVal("Ok", QSumIgnore(drives, i, DataCount(drives), ignore))

\* C37: a successful write(a, b) on an array with no unformatted drive changes
\* bytes at the stripe offset a mod S only; it stores b on the data drive
\* floor(a / S), the drive p + floor(a / S) of the array, if that drive has not
\* failed, changes no byte of any other data drive, and leaves read(a')
\* unchanged for every address a' # a.
C37_WriteFrame ==
    [][(ret' = Ret("write", "Ok") /\ nWrites' = nWrites + 1
                                  /\ \A j \in DOMAIN drives : drives[j].formatted) =>
          LET a == lastWrite'.a
              o == a % drive_size
              t == parity_count(mode) + (a \div drive_size)
          IN  /\ \A j \in DOMAIN drives, x \in 0..(drive_size - 1) :
                    x # o => drives'[j].data[x] = drives[j].data[x]
              /\ ~drives[t].failed => drives'[t].data[o] = written'[a]
              /\ \A j \in DOMAIN drives :
                    (j >= parity_count(mode) /\ j # t) => drives'[j].data = drives[j].data
              /\ \A a2 \in Addresses :
                    a2 # a => read(drives', a2) = read(drives, a2)]_vars

\* C37 happens: a Degraded array of two-byte drives has taken a write at
\* offset 1, and the address reads back the byte
C37_Witness ==
    /\ ret = Ret("write", "Ok")
    /\ lastWrite.st = "Degraded"
    /\ drive_size = 2
    /\ lastWrite.a % drive_size = 1
    /\ \A j \in DOMAIN drives : drives[j].formatted
    /\ \E j \in DOMAIN drives : drives[j].failed
    /\ read(drives, lastWrite.a) = RetVal("Ok", written[lastWrite.a])
    /\ written[lastWrite.a] # 0

\* C38: repair writes only to drives that were unformatted when it was called:
\* a drive that was formatted before the call has the same bytes after it; and
\* a drive's formatted flag goes from unset to set only in a call of init or
\* in a call of repair that returns Ok.
C38_RepairFrame ==
    [][/\ ret'.op = "repair" =>
             \A j \in DOMAIN drives :
                 drives[j].formatted => /\ j \in DOMAIN drives'
                                        /\ drives'[j].data = drives[j].data
       /\ \A j \in DOMAIN drives :
             (~drives[j].formatted /\ drives'[j].formatted) =>
                 ret' \in {Ret("init", "Ok"), Ret("repair", "Ok")}]_vars

\* C38 happens: a repair has returned Ok after rebuilding replaced drives of
\* an array that holds a written byte, and every drive is formatted again
C38_Witness ==
    /\ ret = Ret("repair", "Ok")
    /\ phase = "repairedW"
    /\ \A j \in DOMAIN drives : drives[j].formatted /\ ~drives[j].failed
    /\ \E a \in Addresses : written[a] # 0 /\ read(drives, a) = RetVal("Ok", written[a])

\* the field elements a call has produced: the results that are a Gen
GenOutputs ==
    CASE gen.op = "from" -> {gen.out[1]}
      [] gen.op = "from_power" -> {gen.out[1], gen.out[2], gen.out[3]}
      [] gen.op = "from_power_u8" -> {gen.out[1]}
      [] gen.op \in {"mul", "add"} -> {gen.out[1]}
      [] gen.op = "div" -> {gen.out[1], gen.out[2], gen.out[3], gen.out[4]}
      [] gen.op = "coeff" -> {gen.out[1], gen.out[2], gen.out[3]}
      [] OTHER -> {}

\* C39: every field element produced by from, from_power (of every integer
\* type, u8 included), multiplication, division, inverse or addition is the
\* zero tag 255 or an exponent in 0..254, and is the zero tag exactly when its
\* byte value is 0; from_power never produces the zero element.
C39_Representation ==
    /\ \A g \in GenOutputs :
          g # GenPanic => /\ g \in 0..255
                          /\ (g = ZERO) <=> (Gen_value(g) = 0)
    /\ gen.op \in {"from_power", "from_power_u8"} =>
          /\ gen.out[1] \in 0..254
          /\ Gen_value(gen.out[1]) # 0

\* the indices a sequence lists
Listed(found) == {found[k] : k \in DOMAIN found}

\* C40: a drive whose stored checksum was the XOR of its bytes and that
\* corrupt() has changed once has a stored checksum that differs from
\* compute_cksum(), and find_corrupted returns exactly the indices of the
\* corrupted drives, for every drive size and content.
C40_Scrubber ==
    (\A i \in DOMAIN raid.times : raid.times[i] <= 1) =>
        /\ \A i \in DOMAIN raid.drives :
              raid.times[i] = 1 =>
                  LegacyDrive_cksum(raid.drives[i]) # LegacyDrive_compute_cksum(raid.drives[i])
        /\ raid.op = "find_corrupted" =>
              /\ Listed(raid.found) = {i \in DOMAIN raid.times : raid.times[i] = 1}
              /\ Len(raid.found) = Cardinality(Listed(raid.found))

====
